---- MODULE Spec2Model ----
(***************************************************************************)
(* Model of Real-life-Example/server.py: the EmployeeDataService servicer  *)
(* (record generation at construction, the StreamLargeData generator) and  *)
(* the gRPC server that drives it on a bounded thread pool.                *)
(*                                                                         *)
(* Text is modelled with TLC strings (Len, \o, SubSeq), formatted the way  *)
(* the f-string of _generate_sample_data formats it.                       *)
(*                                                                         *)
(* The handler is a Python generator.  Its body runs only while the        *)
(* server's worker thread is inside next(); at the yield it is suspended   *)
(* and the worker writes the yielded message to the transport.  A failed   *)
(* write or a cancellation is seen by the worker, not by the generator:    *)
(* the worker leaves its loop and the generator is dropped, which raises   *)
(* GeneratorExit (a BaseException) at the yield.  Console output is not    *)
(* modelled, except for the progress line, kept as a per-call log.         *)
(***************************************************************************)
EXTENDS Integers, Sequences, FiniteSets, TLC

VARIABLES
    employees,  \* self.employees: the list of formatted lines
    draws,      \* the random draws used for each record (locals dept, position, salary, ...)
    calls,      \* per RPC: the generator's position, the context, what the client got
    queue,      \* RPCs submitted to the thread pool and waiting for a worker (FIFO)
    probe       \* SpecRecord only: one iteration of the generation loop, applied to sampled inputs

vars == <<employees, draws, calls, queue, probe>>

(***************************************************************************)
(* Bounds.  The source streams 10,000 records, reports every 2,500 and     *)
(* runs 10 workers; the model keeps the structure and scales the sizes.    *)
(***************************************************************************)
NumEmployees == 4       \* stands for range(1, 10001)
ProgressInterval == 2   \* stands for 2500
MaxWorkers == 2         \* stands for max_workers=10
MaxCount == 2           \* largest configured record count explored by SpecConfigured
FairEmployees == 2      \* the Record Set's size under SpecFair

CallIds == {"c1", "c2", "c3"}

(***************************************************************************)
(* Formatting, as Python formats it.                                       *)
(***************************************************************************)
Digits == "0123456789"

DigitChar(d) == SubSeq(Digits, d + 1, d + 1)

\* str(k) / f"{k}" for k >= 0
RECURSIVE Str(_)
Str(k) == IF k < 10 THEN DigitChar(k) ELSE Str(k \div 10) \o DigitChar(k % 10)

\* left-pad with zeros to at least width w  (f"{k:0wd}")
RECURSIVE ZeroPad(_, _)
ZeroPad(s, w) == IF Len(s) >= w THEN s ELSE ZeroPad("0" \o s, w)

\* f"{i:05d}"
Fmt05d(k) == ZeroPad(Str(k), 5)

\* f"{k:02d}"
Fmt02d(k) == ZeroPad(Str(k), 2)

\* mutant of FmtThousands: groups are not zero-padded (150000 -> "150,0")
RECURSIVE FmtThousandsNoPad(_)
FmtThousandsNoPad(k) ==
    IF k < 1000 THEN Str(k)
    ELSE FmtThousandsNoPad(k \div 1000) \o "," \o Str(k % 1000)

\* f"{k:,}"
RECURSIVE FmtThousands(_)
FmtThousands(k) ==
    IF k < 1000 THEN Str(k)
    ELSE FmtThousands(k \div 1000) \o "," \o ZeroPad(Str(k % 1000), 3)

departments == <<"Engineering", "Marketing", "Sales", "HR", "Finance", "Operations">>
positions == <<"Manager", "Senior", "Junior", "Lead", "Director", "Analyst">>

\* random.choice(seq): any element of the sequence
Choice(seq) == {seq[j] : j \in 1..Len(seq)}

\* mutant of RandInt: exclusive-style off-by-one on both ends (lo-1 .. hi+3)
RandIntWide(lo, hi) == {lo - 1, hi + 3}

\* random.randint(lo, hi): inclusive on both ends; the model samples both ends
\* and the midpoint
RandInt(lo, hi) == {lo, (lo + hi) \div 2, hi}

\* the f-string of lines 51-58
FormatEmployee(i, d) ==
    "ID: " \o Fmt05d(i) \o " | "
    \o "Name: " \o d.position \o " " \o d.dept \o " Employee " \o Str(i) \o " | "
    \o "Email: employee" \o Str(i) \o "@company.com | "
    \o "Department: " \o d.dept \o " | "
    \o "Salary: $" \o FmtThousands(d.salary) \o " | "
    \o "Hire Date: 2020-" \o Fmt02d(d.month) \o "-" \o Fmt02d(d.day)

\* the draws of one loop iteration (lines 46-48 and 57)
Draws ==
    [dept : Choice(departments), position : Choice(positions),
     salary : RandInt(45000, 150000), month : RandInt(1, 12), day : RandInt(1, 28)]

\* mutant of GenerateSampleData: the loop counts from 0 (range(0, k))
GenerateSampleDataFromZero(k, ds) == [i \in 1..k |-> FormatEmployee(i - 1, ds[i])]

\* _generate_sample_data: for i in range(1, k + 1), append the formatted record
\* built from that iteration's draws ds[i]
GenerateSampleData(k, ds) == [i \in 1..k |-> FormatEmployee(i, ds[i])]

(***************************************************************************)
(* Reading a line back: split by " | ", then each field by ": ".           *)
(***************************************************************************)
\* index of the first occurrence of sep in s at or after from, 0 if none
RECURSIVE Find(_, _, _)
Find(s, sep, from) ==
    IF from + Len(sep) - 1 > Len(s) THEN 0
    ELSE IF SubSeq(s, from, from + Len(sep) - 1) = sep THEN from
    ELSE Find(s, sep, from + 1)

\* s.split(sep)
RECURSIVE Split(_, _)
Split(s, sep) ==
    LET p == Find(s, sep, 1)
    IN  IF p = 0 THEN <<s>>
        ELSE <<SubSeq(s, 1, p - 1)>> \o Split(SubSeq(s, p + Len(sep), Len(s)), sep)

\* the value of the field named key
FieldValue(line, key) ==
    LET fs == Split(line, " | ")
        j == CHOOSE j \in 1..Len(fs) : Split(fs[j], ": ")[1] = key
    IN  Split(fs[j], ": ")[2]

HasField(line, key) ==
    LET fs == Split(line, " | ")
    IN  \E j \in 1..Len(fs) : Len(Split(fs[j], ": ")) = 2 /\ Split(fs[j], ": ")[1] = key

\* s without the characters in drop
RECURSIVE Without(_, _)
Without(s, drop) ==
    IF Len(s) = 0 THEN s
    ELSE (IF SubSeq(s, 1, 1) \in drop THEN "" ELSE SubSeq(s, 1, 1))
         \o Without(SubSeq(s, 2, Len(s)), drop)

IsNumeral(s) ==
    /\ Len(s) > 0
    /\ \A p \in 1..Len(s) : \E d \in 0..9 : DigitChar(d) = SubSeq(s, p, p)

RECURSIVE ParseInt(_)
ParseInt(s) ==
    IF Len(s) = 0 THEN 0
    ELSE ParseInt(SubSeq(s, 1, Len(s) - 1)) * 10
         + (CHOOSE d \in 0..9 : DigitChar(d) = SubSeq(s, Len(s), Len(s)))

ParsedId(line) == ParseInt(FieldValue(line, "ID"))
ParsedDepartment(line) == FieldValue(line, "Department")
ParsedSalary(line) == ParseInt(Without(FieldValue(line, "Salary"), {"$", ","}))
ParsedPosition(line) == Split(FieldValue(line, "Name"), " ")[1]
ParsedHireDate(line) == Split(FieldValue(line, "Hire Date"), "-")

(***************************************************************************)
(* One RPC.  StreamLargeData is a generator function: calling it creates   *)
(* a generator and runs nothing; the server's worker thread then calls     *)
(* next() on it, writes what it yields to the transport, and repeats.      *)
(*   st      : idle -> queued -> active -> closed                          *)
(*   fw      : what the worker does next: "take" (next()) or "send"        *)
(*   gen     : new -> suspended (at the yield of line 78) -> returned, or  *)
(*             closed (GeneratorExit at the yield)                         *)
(*   yielded : records yielded so far (the loop's i + 1 while suspended)   *)
(*   pending : the message yielded and not yet written                     *)
(*   frames  : the messages the client has received                        *)
(*   progress: the counts printed by the progress indicator                *)
(*   code, details : what the handler set on the context                   *)
(*   status  : the terminal status the server sent ("NONE": none sent)     *)
(*   worker  : the pool thread serving the call (0: none)                  *)
(***************************************************************************)
NewCall ==
    [st |-> "idle", fw |-> "none", gen |-> "none", yielded |-> 0,
     pending |-> <<>>, frames |-> <<>>, progress |-> <<>>,
     code |-> "UNSET", details |-> "", cancelled |-> FALSE, failed |-> FALSE,
     status |-> "NONE", worker |-> 0]

\* data_service_pb2.LargeDataLine(line=employee_data)
LargeDataLine(text) == [line |-> text]

\* mutant of ProgressDue: tests the 0-based index instead of the count
ProgressDueOffByOne(i) == i % ProgressInterval = 0

\* if (i + 1) % 2500 == 0, i the 0-based index of the record just yielded
ProgressDue(i) == (i + 1) % ProgressInterval = 0

\* the statements after the yield, run when the generator is resumed
AfterYield(r) ==
    IF r.gen = "suspended" /\ ProgressDue(r.yielded - 1)
    THEN [r EXCEPT !.progress = Append(@, r.yielded)]
    ELSE r

\* total_time = time.time() - start_time.  The two clock reads can return the
\* same value only if the generator was never suspended on a transport write
\* between them; every write is taken to last longer than the clock's tick.
TotalTimeChoices(r) == IF r.yielded = 0 THEN {0, 1} ELSE {1}

\* lines 85-92: the loop is exhausted; len(self.employees)/total_time raises
\* ZeroDivisionError when total_time is 0.0, which the except clause handles
Finish(r, total_time) ==
    IF total_time = 0
    THEN [r EXCEPT !.gen = "returned", !.code = "INTERNAL",
                   !.details = "Streaming error: " \o "float division by zero"]
    ELSE [r EXCEPT !.gen = "returned"]

\* next(generator): run the body from where it stands to the next yield or to the end
GeneratorNext(r, total_time) ==
    LET r1 == AfterYield(r)
    IN  IF r1.yielded < Len(employees)
        THEN [r1 EXCEPT !.gen = "suspended", !.yielded = @ + 1,
                        !.pending = <<LargeDataLine(employees[r1.yielded + 1])>>]
        ELSE Finish(r1, total_time)

\* mutant of Close: the handler catches what is raised at the yield (except BaseException)
CloseCaught(r) ==
    [r EXCEPT !.gen = "returned", !.pending = <<>>, !.code = "INTERNAL",
              !.details = "Streaming error: " \o "GeneratorExit"]

\* the generator is dropped while suspended: GeneratorExit is raised at the yield.
\* It is not an Exception, so the except clause of line 89 does not run.
Close(r) == [r EXCEPT !.gen = "closed", !.pending = <<>>]

\* mutant of RecordSetAfterIteration: the loop consumes the list (pop(0))
RecordSetConsumed(es) == IF es = <<>> THEN es ELSE Tail(es)

\* enumerate(self.employees) reads the list and leaves it as it is
RecordSetAfterIteration(es) == es

\* mutant of Update: the loop position is shared by all calls (kept on self)
UpdateShared(c, r) ==
    [d \in CallIds |->
        IF d = c THEN r
        ELSE IF calls[d].st = "active" THEN [calls[d] EXCEPT !.yielded = r.yielded]
        ELSE calls[d]]

\* i, employee_data, start_time are locals of one generator: a step of call c
\* changes the state of c only
Update(c, r) == [calls EXCEPT ![c] = r]

\* mutant of FreeWorkers: one thread more than max_workers
FreeWorkersOneMore ==
    {w \in 1..(MaxWorkers + 1) : \A c \in CallIds : ~(calls[c].st = "active" /\ calls[c].worker = w)}

\* futures.ThreadPoolExecutor(max_workers=10): the idle threads
FreeWorkers ==
    {w \in 1..MaxWorkers : \A c \in CallIds : ~(calls[c].st = "active" /\ calls[c].worker = w)}

Active == {c \in CallIds : calls[c].st = "active"}

(***************************************************************************)
(* Actions                                                                 *)
(***************************************************************************)
\* a client opens StreamLargeData: the server submits the handler to the pool
Request(c) ==
    /\ calls[c].st = "idle"
    /\ calls' = Update(c, [calls[c] EXCEPT !.st = "queued"])
    /\ queue' = Append(queue, c)
    /\ UNCHANGED <<employees, draws, probe>>

\* an idle worker takes the oldest queued call and calls StreamLargeData(request, context)
Serve ==
    /\ queue # <<>>
    /\ FreeWorkers # {}
    /\ LET c == Head(queue)
           w == CHOOSE w \in FreeWorkers : \A v \in FreeWorkers : w <= v
       IN  calls' = Update(c, [calls[c] EXCEPT !.st = "active", !.fw = "take",
                                               !.gen = "new", !.worker = w])
    /\ queue' = Tail(queue)
    /\ UNCHANGED <<employees, draws, probe>>

\* the terminal status the server sends when the generator is exhausted
Terminate(r) ==
    [r EXCEPT !.st = "closed", !.fw = "none", !.worker = 0,
              !.status = IF r.cancelled THEN "NONE"
                         ELSE IF r.code = "UNSET" THEN "OK" ELSE r.code]

\* the worker calls next() on the generator
Take(c) ==
    /\ calls[c].st = "active"
    /\ calls[c].fw = "take"
    /\ \E total_time \in TotalTimeChoices(calls[c]) :
         LET g == GeneratorNext(calls[c], total_time)
         IN  calls' = Update(c, IF g.gen = "suspended"
                                THEN [g EXCEPT !.fw = "send"]
                                ELSE Terminate(g))
    /\ employees' = RecordSetAfterIteration(employees)
    /\ UNCHANGED <<draws, queue, probe>>

\* the transport writes the yielded message to the client
SendOk(c) ==
    /\ calls[c].st = "active"
    /\ calls[c].fw = "send"
    /\ ~calls[c].cancelled
    /\ calls' = Update(c, [calls[c] EXCEPT !.frames = Append(@, calls[c].pending[1]),
                                           !.pending = <<>>, !.fw = "take"])
    /\ UNCHANGED <<employees, draws, queue, probe>>

\* the transport write fails: the RPC is over, the worker leaves the loop and
\* the suspended generator is dropped.  The message may or may not have landed.
SendFail(c) ==
    /\ calls[c].st = "active"
    /\ calls[c].fw = "send"
    /\ ~calls[c].cancelled
    /\ \E landed \in BOOLEAN :
         calls' = Update(c, [Close(calls[c]) EXCEPT
                                !.frames = IF landed THEN Append(@, calls[c].pending[1]) ELSE @,
                                !.failed = TRUE, !.st = "closed", !.fw = "none",
                                !.worker = 0])
    /\ UNCHANGED <<employees, draws, queue, probe>>

\* the client cancels or disconnects and the server observes it
Cancel(c) ==
    /\ calls[c].st = "active"
    /\ ~calls[c].cancelled
    /\ calls' = Update(c, [calls[c] EXCEPT !.cancelled = TRUE])
    /\ UNCHANGED <<employees, draws, queue, probe>>

\* the worker finds the RPC cancelled: it writes nothing, leaves the loop and
\* the generator is dropped
Stop(c) ==
    /\ calls[c].st = "active"
    /\ calls[c].cancelled
    /\ calls' = Update(c, [Close(calls[c]) EXCEPT !.st = "closed", !.fw = "none",
                                                   !.worker = 0])
    /\ UNCHANGED <<employees, draws, queue, probe>>

\* one iteration of the generation loop for the sampled index probe.i
LoopBody ==
    /\ probe.recs = <<>>
    /\ \E d \in Draws :
         probe' = [probe EXCEPT !.recs = <<[d |-> d, line |-> FormatEmployee(probe.i, d)]>>]
    /\ UNCHANGED <<employees, draws, calls, queue>>

(***************************************************************************)
(* Specifications                                                          *)
(***************************************************************************)
NoProbe == [i |-> 0, recs |-> <<>>]

DrawA == [dept |-> "Engineering", position |-> "Manager", salary |-> 45000, month |-> 1, day |-> 1]
DrawB == [dept |-> "HR", position |-> "Analyst", salary |-> 150000, month |-> 12, day |-> 28]

\* the service object after __init__ with k records, the draws alternating
\* between two samples, the first record's draw taken from firsts
InitFrom(k, firsts) ==
    /\ \E a \in firsts :
         draws = [j \in 1..k |-> IF j % 2 = 1 THEN a ELSE CHOOSE b \in {DrawA, DrawB} : b # a]
    /\ employees = GenerateSampleData(k, draws)
    /\ calls = [c \in CallIds |-> NewCall]
    /\ queue = <<>>
    /\ probe = NoProbe

InitWith(k) == InitFrom(k, {DrawA, DrawB})

Init == InitWith(NumEmployees)

Next ==
    \/ \E c \in CallIds : Request(c)
    \/ Serve
    \/ \E c \in CallIds : Take(c)
    \/ \E c \in CallIds : SendOk(c)
    \/ \E c \in CallIds : SendFail(c)
    \/ \E c \in CallIds : Cancel(c)
    \/ \E c \in CallIds : Stop(c)

Spec == Init /\ [][Next]_vars

\* the worker threads keep running and the transport completes every write
\* one way or the other
Fairness ==
    /\ WF_vars(Serve)
    /\ \A c \in CallIds : WF_vars(Take(c) \/ Stop(c))
    /\ \A c \in CallIds : WF_vars(SendOk(c) \/ SendFail(c) \/ Stop(c))

\* the service with a shorter Record Set, under fair scheduling
InitFair == InitFrom(FairEmployees, {DrawA})

SpecFair == InitFair /\ [][Next]_vars /\ Fairness

\* the same service with a configured record count
InitConfigured == \E k \in 0..MaxCount : InitWith(k)

SpecConfigured == InitConfigured /\ [][Next]_vars

\* sampled loop indices of range(1, 10001)
SampleIds == {1, 9, 10, 2500, 9999, 10000}

InitRecord ==
    /\ employees = <<>>
    /\ draws = <<>>
    /\ calls = [c \in CallIds |-> NewCall]
    /\ queue = <<>>
    /\ \E i \in SampleIds : probe = [i |-> i, recs |-> <<>>]

NextRecord == LoopBody

SpecRecord == InitRecord /\ [][NextRecord]_vars

(***************************************************************************)
(* Properties                                                              *)
(***************************************************************************)
\* the call ran undisturbed: the client never cancelled and no write failed
Undisturbed(c) == ~calls[c].cancelled /\ ~calls[c].failed

\* the generator ran to its end and the server sent the terminal status
Completed(c) == calls[c].st = "closed" /\ calls[c].gen = "returned" /\ Undisturbed(c)

\* the frames received so far are the first records of the Record Set, in order
FramesArePrefix(c) ==
    /\ Len(calls[c].frames) <= Len(employees)
    /\ \A k \in 1..Len(calls[c].frames) : calls[c].frames[k] = LargeDataLine(employees[k])

\* the identifier of the record a frame carries: the first field of its line
FrameId(f) == ParseInt(Split(SubSeq(f.line, 1, Find(f.line, " | ", 1) - 1), ": ")[2])

\* C1: a call whose client keeps reading and never cancels, with no write
\* failure, delivers one frame per record, the k-th frame carrying the record
\* with identifier k, and completes only after the last frame, with status OK
\* and no error code set.  (Frames are only ever appended, so the newest
\* frame of every state covers every frame.)
C1_StreamsAllInOrder ==
    \A c \in CallIds :
        Undisturbed(c) =>
            /\ FramesArePrefix(c)
            /\ calls[c].frames # <<>> =>
                  FrameId(calls[c].frames[Len(calls[c].frames)]) = Len(calls[c].frames)
            /\ calls[c].status # "NONE" => calls[c].st = "closed"
            /\ calls[c].st = "closed" =>
                  /\ Len(calls[c].frames) = Len(employees)
                  /\ calls[c].status = "OK"
                  /\ calls[c].code = "UNSET"

C1_Witness ==
    \E c \in CallIds :
        /\ Completed(c)
        /\ Len(calls[c].frames) = NumEmployees
        /\ FrameId(calls[c].frames[NumEmployees]) = NumEmployees
        /\ calls[c].status = "OK"

\* any two calls that ran to completion delivered the same sequence
CompletedCallsAgree ==
    \A c, d \in CallIds :
        Completed(c) /\ Completed(d) =>
            /\ calls[c].frames = calls[d].frames
            /\ calls[c].frames = [k \in 1..Len(employees) |-> LargeDataLine(employees[k])]

\* C2: no operation changes the length or content of the Record Set after
\* construction, whatever the calls do, and so any two calls that run to
\* completion yield identical sequences.
C2_RecordSetFixed ==
    /\ [][employees' = employees]_vars
    /\ []CompletedCallsAgree

C2_Witness ==
    \E c, d, e \in CallIds :
        /\ c # d /\ Completed(c) /\ Completed(d)
        /\ Len(calls[c].frames) = NumEmployees
        /\ calls[c].frames = calls[d].frames
        /\ calls[e].st = "closed" /\ (calls[e].cancelled \/ calls[e].failed)

\* s starts with prefix
StartsWith(s, prefix) == Len(s) >= Len(prefix) /\ SubSeq(s, 1, Len(prefix)) = prefix

\* C3 (as claimed): when the transport write of a record fails, the call stops,
\* the client has a prefix of the sequence, and the context carries status
\* INTERNAL with a 'Streaming error: ...' message.
C3_WriteFailureSetsInternal ==
    \A c \in CallIds :
        calls[c].failed =>
            /\ calls[c].st = "closed"
            /\ FramesArePrefix(c)
            /\ calls[c].code = "INTERNAL"
            /\ StartsWith(calls[c].details, "Streaming error: ")

\* C4: once the server has observed the client's cancellation it emits no
\* further frame for that call, the INTERNAL status and details of the failure
\* path are not set, and the call ends, releasing its worker.
C4_CancelStopsEmission ==
    /\ [][\A c \in CallIds : calls[c].cancelled => calls'[c].frames = calls[c].frames]_vars
    /\ [](\A c \in CallIds :
            calls[c].cancelled =>
                /\ calls[c].code = "UNSET"
                /\ calls[c].details = ""
                /\ calls[c].status = "NONE"
                /\ ~calls[c].failed
                /\ FramesArePrefix(c)
                /\ calls[c].st = "closed" => calls[c].worker = 0)
    /\ \A c \in CallIds : calls[c].cancelled ~> calls[c].st = "closed"

\* a call was cancelled after some frames, and every worker of the pool is now
\* serving another call: the worker that served it is in use again
C4_Witness ==
    \E c \in CallIds :
        /\ calls[c].cancelled /\ calls[c].st = "closed"
        /\ Len(calls[c].frames) >= 1 /\ Len(calls[c].frames) < Len(employees)
        /\ Active = CallIds \ {c}
        /\ Cardinality(Active) = MaxWorkers

\* C5: a write failure or cancellation in one call ends that call only: a step
\* of one call leaves every other call's state and the Record Set unchanged,
\* and a call that is itself undisturbed still delivers the whole Record Set in
\* order and completes with OK while others have failed or been cancelled.
C5_FailureIsLocal ==
    /\ [][/\ employees' = employees
          /\ \A c, d \in CallIds : c # d /\ calls'[c] # calls[c] => calls'[d] = calls[d]]_vars
    /\ [](\A c, d \in CallIds :
            c # d /\ (calls[d].failed \/ calls[d].cancelled) /\ Undisturbed(c) =>
                /\ FramesArePrefix(c)
                /\ calls[c].yielded = Len(calls[c].frames) + Len(calls[c].pending)
                /\ calls[c].st = "closed" =>
                      /\ Len(calls[c].frames) = Len(employees)
                      /\ calls[c].status = "OK")

C5_Witness ==
    \E c, d, e \in CallIds :
        /\ calls[d].failed /\ Len(calls[d].frames) < NumEmployees
        /\ calls[e].cancelled /\ calls[e].st = "closed"
        /\ Completed(c) /\ Len(calls[c].frames) = NumEmployees /\ calls[c].status = "OK"

C7_FieldsInRange ==
    \A j \in 1..Len(probe.recs) :
        LET line == probe.recs[j].line
            sal == Without(FieldValue(line, "Salary"), {"$", ","})
            date == ParsedHireDate(line)
        IN  /\ IsNumeral(sal) /\ ParseInt(sal) \in 45000..150000
            /\ probe.recs[j].d.salary \in 45000..150000
            /\ ParsedDepartment(line) \in Choice(departments)
            /\ ParsedPosition(line) \in Choice(positions)
            /\ Cardinality(Choice(departments)) = 6
            /\ Cardinality(Choice(positions)) = 6
            /\ Len(date) = 3 /\ date[1] = "2020"
            /\ Len(date[2]) = 2 /\ IsNumeral(date[2]) /\ ParseInt(date[2]) \in 1..12
            /\ Len(date[3]) = 2 /\ IsNumeral(date[3]) /\ ParseInt(date[3]) \in 1..28

C7_Witness ==
    \E j \in 1..Len(probe.recs) :
        /\ probe.recs[j].d.salary = 150000
        /\ ParsedHireDate(probe.recs[j].line) = <<"2020", "12", "28">>
        /\ ParsedDepartment(probe.recs[j].line) = "Operations"

\* C8: splitting a record's line by " | " and each field by ": " recovers the
\* id, the department and the salary used when the record was generated.
C8_RoundTrip ==
    \A j \in 1..Len(probe.recs) :
        LET line == probe.recs[j].line
        IN  /\ Len(Split(line, " | ")) = 6
            /\ HasField(line, "ID") /\ HasField(line, "Department") /\ HasField(line, "Salary")
            /\ IsNumeral(FieldValue(line, "ID"))
            /\ ParsedId(line) = probe.i
            /\ ParsedDepartment(line) = probe.recs[j].d.dept
            /\ IsNumeral(Without(FieldValue(line, "Salary"), {"$", ","}))
            /\ ParsedSalary(line) = probe.recs[j].d.salary

C8_Witness ==
    \E j \in 1..Len(probe.recs) :
        /\ probe.i = 10000
        /\ FieldValue(probe.recs[j].line, "ID") = "10000"
        /\ FieldValue(probe.recs[j].line, "Salary") = "$150,000"
        /\ ParsedSalary(probe.recs[j].line) = 150000

\* the records whose post-yield statements have run in call c
Passed(c) ==
    IF calls[c].gen = "returned" THEN calls[c].yielded
    ELSE IF calls[c].yielded > 0 THEN calls[c].yielded - 1 ELSE 0

\* the multiples of ProgressInterval up to m, in increasing order
RECURSIVE Multiples(_)
Multiples(m) ==
    IF m = 0 THEN <<>>
    ELSE IF m % ProgressInterval = 0 THEN Append(Multiples(m - 1), m)
    ELSE Multiples(m - 1)

\* C9: progress is reported exactly after every ProgressInterval-th record and
\* at no other record, and reporting it changes neither the frames emitted,
\* their order, nor the terminal status.
C9_ProgressEveryInterval ==
    \A c \in CallIds :
        /\ calls[c].progress = Multiples(Passed(c))
        /\ Undisturbed(c) =>
              /\ FramesArePrefix(c)
              /\ calls[c].yielded = Len(calls[c].frames) + Len(calls[c].pending)
              /\ calls[c].st = "closed" =>
                    calls[c].status = "OK" /\ Len(calls[c].frames) = Len(employees)

C9_Witness ==
    \E c \in CallIds :
        /\ Completed(c)
        /\ calls[c].progress = <<ProgressInterval, 2 * ProgressInterval>>
        /\ Len(calls[c].frames) = NumEmployees
        /\ NumEmployees % ProgressInterval = 0

\* C10: at most MaxWorkers calls are being served at any moment; a call that
\* arrives while all workers are busy waits in the queue, is never rejected,
\* and is eventually served.
C10_BoundedPool ==
    /\ [](Cardinality(Active) <= MaxWorkers)
    /\ [](\A c \in CallIds : calls[c].st = "queued" <=> \E k \in 1..Len(queue) : queue[k] = c)
    /\ [][\A c \in CallIds : calls[c].st = "queued" => calls'[c].st \in {"queued", "active"}]_vars
    /\ \A c \in CallIds : calls[c].st = "queued" ~> calls[c].st = "active"

C10_Witness ==
    /\ Cardinality(Active) = MaxWorkers
    /\ queue # <<>>
    /\ \E c \in CallIds : calls[c].st = "queued" /\ FreeWorkers = {}

====
